---- MODULE Spec2Model ----
(***************************************************************************)
(* The signaling gateway of ProLiteMeet (backend server.js): the room map, *)
(* the socket-to-room map, the Socket.IO adapter rooms, and one action per *)
(* socket event handler.  Timestamps (joinedAt, createdAt, timestamp) are  *)
(* left out: no handler reads them.  uuidv4() is a counter of fresh ids.   *)
(*                                                                         *)
(* The browser client (WebRTCManager.ts and the MeetingRoom view): per     *)
(* socket the manager, its local stream, its registry of RTCPeerConnection *)
(* objects, and one action per listener, view call and browser callback.   *)
(* An asynchronous handler is the sequence of operations it awaits on its  *)
(* connection's operations chain.  SDP and candidate bodies are left out.  *)
(***************************************************************************)
EXTENDS Naturals, Sequences, FiniteSets, TLC

\* ------------------------------------------------------------------ bounds
\* at most MaxJoins join-room events are handled in one run
MaxJoins == 3
\* at most MaxMessages chat messages are accepted in one run
MaxMessages == 1

\* at most MaxToggles toggle-audio / toggle-video events change a flag in one run
MaxToggles == 1

\* at most MaxPcs RTCPeerConnection objects are constructed in one run
MaxPcs == 2
\* at most MaxChain operations wait on one connection's operations chain
MaxChain == 2
\* at most MaxCandidates ICE candidates are gathered by, and at most as many
\* added to, one connection
MaxCandidates == 1
\* one connection's state becomes failed at most MaxFailures times
MaxFailures == 2

\* ------------------------------------------------------------------ inputs
\* transport session ids (socket.id) in the order the server hands them out; an
\* id is never reused after disconnect
SocketOrder == <<"s1", "s2">>
SocketIds == {SocketOrder[i] : i \in 1..Len(SocketOrder)}
\* room ids clients name in their payloads
RoomIds == {"r1", "r2"}
\* every string a payload may carry as roomId or targetId
Names == SocketIds \cup RoomIds
UserNames == {"ann"}
\* the display name of a join-room payload whose userName is ''
EmptyName == ""
MessageTexts == {"hi"}
\* the client's leaveMeeting() emits 'leave-room' without a payload
NoPayload == "<no payload>"
RelayKinds == {"webrtc-offer", "webrtc-answer", "webrtc-ice-candidate"}
\* the value of a payload field that is not there
Undefined == "<undefined>"
\* const { f } = payload
Field(payload, f) == IF f \in DOMAIN payload THEN payload[f] ELSE Undefined
\* the events WebRTCManager.setupSocketListeners() registers a listener for
ListenedEvents == RelayKinds \cup {"user-joined", "user-left"}
\* the video tracks the view captures: getUserMedia and getDisplayMedia
VideoTracks == {"camera", "screen"}

VARIABLES
    sockets,      \* socket id -> "fresh" | "connected" | "closed"
    sockRooms,    \* socket id -> the adapter rooms it joined (socket.join), own id left implicit
    rooms,        \* const rooms = new Map(): room id -> [participants, messages]
    participants, \* const participants = new Map(): socket id -> [roomId, userName]
    joins,        \* number of join-room events handled so far
    nextMsgId,    \* number of uuidv4() ids drawn so far
    toggles,      \* number of toggle events that found their participant so far
    last,         \* the event handled by the last step: [ev, from, arg]
    out           \* what the last step emitted, in order: Seq([ev, to, ...payload])

\* the browser clients, one per socket
VARIABLES
    manager,         \* socket id -> "none" | "live" | "cleaned": the view's WebRTCManager
    localStream,     \* socket id -> the video track of manager.localStream, "none" when null
    pcs,             \* every RTCPeerConnection object constructed so far, in order
    peerConnections, \* socket id -> (registry key -> index into pcs): the manager's Map
    inbox,           \* socket id -> gateway events on their way to the manager's listeners
    wire,            \* socket id -> events the client emitted, on their way to the gateway
    view             \* socket id -> the view's isAudioEnabled, isVideoEnabled, isScreenSharing

gvars == <<sockets, sockRooms, rooms, participants, joins, nextMsgId, toggles, last, out>>
cvars == <<manager, localStream, pcs, peerConnections, inbox, wire, view>>
vars == <<gvars, cvars>>

\* ----------------------------------------------------------- Socket.IO core
Connected == {s \in SocketIds : sockets[s] = "connected"}

\* the sockets in adapter room X, given the sockets' states sk and their joined
\* rooms sr: every connected socket is in the room named by its own id
Members(sk, sr, X) == {s \in SocketIds : sk[s] = "connected" /\ (X = s \/ X \in sr[s])}

InRoom(X) == Members(sockets, sockRooms, X)

\* socket.emit(ev, data)
ToSelf(s) == {s}
\* socket.to(X).emit(ev, data): the room X except the sender
ToOthers(sk, sr, s, X) == Members(sk, sr, X) \ {s}
\* io.to(X).emit(ev, data): the whole room X
ToAll(sk, sr, X) == Members(sk, sr, X)

Range(seq) == {seq[i] : i \in 1..Len(seq)}
RosterIds(roster) == {roster[i].id : i \in 1..Len(roster)}

\* the events of emitted that socket c receives and has a listener for
Received(c, emitted) == SelectSeq(emitted, LAMBDA e : c \in e.to /\ e.ev \in ListenedEvents)

\* the clients' inboxes after the gateway emitted: a socket whose manager has
\* no listeners registered drops the events
InboxAfter(emitted) ==
    [c \in SocketIds |->
        IF manager[c] = "live" THEN inbox[c] \o Received(c, emitted) ELSE inbox[c]]

\* the emissions of a gateway handler reach the clients; no handler runs there
Reach(emitted) ==
    /\ inbox' = InboxAfter(emitted)
    /\ UNCHANGED <<manager, localStream, pcs, peerConnections, view>>

\* the same for an event the model takes from outside the clients' emissions
Deliver(emitted) ==
    /\ Reach(emitted)
    /\ UNCHANGED wire

\* ------------------------------------------------------------ room directory
NewRoom == [participants |-> <<>>, messages |-> <<>>]

\* if (!rooms.has(roomId)) rooms.set(roomId, {...})
EnsureRoom(rms, roomId) ==
    IF roomId \in DOMAIN rms THEN rms ELSE rms @@ (roomId :> NewRoom)

NewParticipant(sid, userName) ==
    [id |-> sid, userName |-> userName, isAudioMuted |-> FALSE, isVideoOff |-> FALSE]

\* socket.to(roomId).emit('user-joined', { participantId, userName, participant })
UserJoinedEvent(to, participant) ==
    [ev |-> "user-joined", to |-> to, participantId |-> participant.id,
     userName |-> participant.userName, participant |-> participant]

\* socket.to(roomId).emit('user-left', { participantId, userName })
UserLeftEvent(to, sid, userName) ==
    [ev |-> "user-left", to |-> to, participantId |-> sid, userName |-> userName]

\* socket.to(targetId).emit(kind, { senderId: socket.id, ... })
RelayedEvent(kind, to, sid) == [ev |-> kind, to |-> to, senderId |-> sid]

\* unshift instead of push: the newcomer goes to the front of the roster
UnshiftParticipant(roster, participant) == <<participant>> \o roster

\* room.participants.push(participant)
PushParticipant(roster, participant) == Append(roster, participant)

Init ==
    /\ sockets = [s \in SocketIds |-> "fresh"]
    /\ sockRooms = [s \in SocketIds |-> {}]
    /\ rooms = <<>>
    /\ participants = <<>>
    /\ joins = 0
    /\ nextMsgId = 0
    /\ toggles = 0
    /\ last = [ev |-> "listen", from |-> "-", arg |-> "-"]
    /\ out = <<>>
    /\ manager = [c \in SocketIds |-> "none"]
    /\ localStream = [c \in SocketIds |-> "none"]
    /\ pcs = <<>>
    /\ peerConnections = [c \in SocketIds |-> <<>>]
    /\ inbox = [c \in SocketIds |-> <<>>]
    /\ wire = [c \in SocketIds |-> <<>>]
    /\ view = [c \in SocketIds |->
                 [isAudioEnabled |-> TRUE, isVideoEnabled |-> TRUE, isScreenSharing |-> FALSE]]

\* io.on('connection')
Connect(s) ==
    /\ sockets[s] = "fresh"
    /\ \A i, j \in 1..Len(SocketOrder) : (i < j /\ SocketOrder[j] = s) => sockets[SocketOrder[i]] # "fresh"
    /\ sockets' = [sockets EXCEPT ![s] = "connected"]
    /\ last' = [ev |-> "connection", from |-> s, arg |-> "-"]
    /\ out' = <<>>
    /\ UNCHANGED <<sockRooms, rooms, participants, joins, nextMsgId, toggles>>
    /\ Deliver(out')

\* socket.on('join-room')
JoinRoom(s, roomId, userName) ==
    /\ sockets[s] = "connected"
    /\ joins < MaxJoins
    /\ joins' = joins + 1
    /\ LET ensured == EnsureRoom(rooms, roomId)
           participant == NewParticipant(s, userName)
           roster == PushParticipant(ensured[roomId].participants, participant)
           joined == [sockRooms EXCEPT ![s] = @ \cup {roomId}]
       IN /\ rooms' = [ensured EXCEPT ![roomId].participants = roster]
          /\ participants' = (s :> [roomId |-> roomId, userName |-> userName]) @@ participants
          /\ sockRooms' = joined
          /\ out' = << [ev |-> "joined-room", to |-> ToSelf(s), roomId |-> roomId,
                        participantId |-> s, participants |-> roster,
                        messages |-> ensured[roomId].messages],
                       UserJoinedEvent(ToOthers(sockets, joined, s, roomId), participant),
                       [ev |-> "participants-updated", to |-> ToAll(sockets, joined, roomId), roomId |-> roomId,
                        participants |-> roster] >>
    /\ last' = [ev |-> "join-room", from |-> s, arg |-> roomId]
    /\ UNCHANGED <<sockets, nextMsgId, toggles>>
    /\ Deliver(out')

\* socket.on('join-room') with a payload that has no roomId or an empty
\* userName: the handler has no check, it runs its body as for any payload
MalformedJoin(s, roomId, userName) ==
    /\ roomId = Undefined \/ userName = EmptyName
    /\ JoinRoom(s, roomId, userName)

\* socket.on('join-room') with the id of another socket as roomId: the handler
\* takes any string, and socket.join puts the sender into the adapter room
\* Socket.IO keeps for that socket
JoinSocketRoom(s, targetId, userName) ==
    /\ targetId \in SocketIds \ {s}
    /\ JoinRoom(s, targetId, userName)

\* socket.on('webrtc-offer' | 'webrtc-answer' | 'webrtc-ice-candidate'):
\* socket.to(targetId).emit(kind, {senderId: socket.id, ...})
RelayTo(s, targetId) == ToOthers(sockets, sockRooms, s, targetId)

RelayHandler(s, kind, targetId) ==
    /\ sockets[s] = "connected"
    /\ out' = << RelayedEvent(kind, RelayTo(s, targetId), s) >>
    /\ last' = [ev |-> kind, from |-> s, arg |-> targetId]
    /\ UNCHANGED <<sockets, sockRooms, rooms, participants, joins, nextMsgId, toggles>>
    /\ Reach(out')

\* a relay event from any program on socket s
Relay(s, kind, targetId) ==
    /\ RelayHandler(s, kind, targetId)
    /\ UNCHANGED wire

\* the relay event at the head of what the manager on socket s emitted: the
\* handler destructures { targetId, ... } from the manager's payload
RelayFromWire(s) ==
    /\ wire[s] # <<>>
    /\ Head(wire[s]).ev \in RelayKinds
    /\ RelayHandler(s, Head(wire[s]).ev, Field(Head(wire[s]), "targetId"))
    /\ wire' = [wire EXCEPT ![s] = Tail(@)]

\* io.emit instead of socket.emit: the error goes to every connected socket
ErrorToAll(s) == [ev |-> "error", to |-> Connected, message |-> "Room not found"]

\* socket.emit('error', { message: 'Room not found' })
RoomNotFound(s) == [ev |-> "error", to |-> ToSelf(s), message |-> "Room not found"]

\* const chatMessage = { id: uuidv4(), senderId: socket.id, userName, message, ... }
ChatMessage(id, s, userName, message) ==
    [id |-> id, senderId |-> s, userName |-> userName, message |-> message]

\* socket.on('send-message')
SendMessage(s, roomId, message, userName) ==
    /\ sockets[s] = "connected"
    /\ nextMsgId < MaxMessages
    /\ IF roomId \notin DOMAIN rooms
       THEN /\ out' = << RoomNotFound(s) >>
            /\ UNCHANGED <<rooms, nextMsgId>>
       ELSE LET chatMessage == ChatMessage(nextMsgId + 1, s, userName, message)
            IN /\ nextMsgId' = nextMsgId + 1
               /\ rooms' = [rooms EXCEPT ![roomId].messages = Append(@, chatMessage)]
               /\ out' = << [ev |-> "new-message", to |-> ToAll(sockets, sockRooms, roomId),
                             roomId |-> roomId, chatMessage |-> chatMessage] >>
    /\ last' = [ev |-> "send-message", from |-> s, arg |-> roomId]
    /\ UNCHANGED <<sockets, sockRooms, participants, joins, toggles>>
    /\ Deliver(out')

\* find() with a predicate that holds of every entry: the first entry of the
\* roster, whoever it is
FindFirstEntry(roster, sid) == IF sid \in RosterIds(roster) THEN 1 ELSE 0

\* room.participants.find(p => p.id === socket.id): the index of the first
\* entry with that id, 0 when there is none
FindParticipant(roster, sid) ==
    IF sid \in RosterIds(roster)
    THEN CHOOSE i \in 1..Len(roster) :
            /\ roster[i].id = sid
            /\ \A j \in 1..(i - 1) : roster[j].id # sid
    ELSE 0

\* target.f = payload.f, and { ..., f: payload.f } in an emitted object: when the
\* payload has no f the value is undefined, which a record shows (as the JSON
\* sent to the clients does) as a field that is not there
Assigned(target, f, payload) ==
    IF f \in DOMAIN payload
    THEN IF f \in DOMAIN target
         THEN [target EXCEPT ![f] = payload[f]]
         ELSE target @@ (f :> payload[f])
    ELSE [g \in DOMAIN target \ {f} |-> target[g]]

\* participant.isAudioMuted = isAudioMuted
SetAudio(rms, roomId, sid, payload) ==
    [rms EXCEPT ![roomId].participants[FindParticipant(rms[roomId].participants, sid)] =
                    Assigned(@, "isAudioMuted", payload)]

\* participant.isVideoOff = isVideoOff
SetVideo(rms, roomId, sid, payload) ==
    [rms EXCEPT ![roomId].participants[FindParticipant(rms[roomId].participants, sid)] =
                    Assigned(@, "isVideoOff", payload)]

\* socket.on('toggle-audio', ({ roomId, isAudioMuted }) => ...)
ToggleAudioHandler(s, payload) ==
    /\ sockets[s] = "connected"
    /\ LET roomId == Field(payload, "roomId")
       IN /\ IF roomId \in DOMAIN rooms /\ FindParticipant(rooms[roomId].participants, s) # 0
             THEN /\ toggles < MaxToggles
                  /\ toggles' = toggles + 1
                  /\ rooms' = SetAudio(rooms, roomId, s, payload)
                  /\ out' = << Assigned([ev |-> "participant-audio-toggled",
                                         to |-> ToOthers(sockets, sockRooms, s, roomId),
                                         participantId |-> s], "isAudioMuted", payload) >>
             ELSE /\ out' = <<>>
                  /\ UNCHANGED <<rooms, toggles>>
          /\ last' = [ev |-> "toggle-audio", from |-> s, arg |-> roomId]
    /\ UNCHANGED <<sockets, sockRooms, participants, joins, nextMsgId>>
    /\ Reach(out')

\* a toggle-audio event from any program on socket s
ToggleAudio(s, roomId, isAudioMuted) ==
    /\ ToggleAudioHandler(s, [roomId |-> roomId, isAudioMuted |-> isAudioMuted])
    /\ UNCHANGED wire

\* the toggle-audio event at the head of what the view on socket s emitted
ToggleAudioFromWire(s) ==
    /\ wire[s] # <<>>
    /\ Head(wire[s]).ev = "toggle-audio"
    /\ ToggleAudioHandler(s, Head(wire[s]))
    /\ wire' = [wire EXCEPT ![s] = Tail(@)]

\* socket.on('toggle-video', ({ roomId, isVideoOff }) => ...)
ToggleVideoHandler(s, payload) ==
    /\ sockets[s] = "connected"
    /\ LET roomId == Field(payload, "roomId")
       IN /\ IF roomId \in DOMAIN rooms /\ FindParticipant(rooms[roomId].participants, s) # 0
             THEN /\ toggles < MaxToggles
                  /\ toggles' = toggles + 1
                  /\ rooms' = SetVideo(rooms, roomId, s, payload)
                  /\ out' = << Assigned([ev |-> "participant-video-toggled",
                                         to |-> ToOthers(sockets, sockRooms, s, roomId),
                                         participantId |-> s], "isVideoOff", payload) >>
             ELSE /\ out' = <<>>
                  /\ UNCHANGED <<rooms, toggles>>
          /\ last' = [ev |-> "toggle-video", from |-> s, arg |-> roomId]
    /\ UNCHANGED <<sockets, sockRooms, participants, joins, nextMsgId>>
    /\ Reach(out')

\* a toggle-video event from any program on socket s
ToggleVideo(s, roomId, isVideoOff) ==
    /\ ToggleVideoHandler(s, [roomId |-> roomId, isVideoOff |-> isVideoOff])
    /\ UNCHANGED wire

\* the toggle-video event at the head of what the view on socket s emitted
ToggleVideoFromWire(s) ==
    /\ wire[s] # <<>>
    /\ Head(wire[s]).ev = "toggle-video"
    /\ ToggleVideoHandler(s, Head(wire[s]))
    /\ wire' = [wire EXCEPT ![s] = Tail(@)]

\* socket.on('start-screen-share')
StartScreenShare(s, roomId) ==
    /\ sockets[s] = "connected"
    /\ out' = << [ev |-> "user-started-screen-share",
                  to |-> ToOthers(sockets, sockRooms, s, roomId), participantId |-> s] >>
    /\ last' = [ev |-> "start-screen-share", from |-> s, arg |-> roomId]
    /\ UNCHANGED <<sockets, sockRooms, rooms, participants, joins, nextMsgId, toggles>>
    /\ Deliver(out')

\* socket.on('stop-screen-share')
StopScreenShare(s, roomId) ==
    /\ sockets[s] = "connected"
    /\ out' = << [ev |-> "user-stopped-screen-share",
                  to |-> ToOthers(sockets, sockRooms, s, roomId), participantId |-> s] >>
    /\ last' = [ev |-> "stop-screen-share", from |-> s, arg |-> roomId]
    /\ UNCHANGED <<sockets, sockRooms, rooms, participants, joins, nextMsgId, toggles>>
    /\ Deliver(out')

\* the events io.on('connection') registers a handler for
HandledEvents ==
    RelayKinds \cup {"join-room", "send-message", "toggle-audio", "toggle-video",
                     "start-screen-share", "stop-screen-share", "disconnect", "leave-room"}

\* an event of the client on socket s that no handler is registered for:
\* Socket.IO drops it, nothing is written and nothing is emitted
Unhandled(s) ==
    /\ sockets[s] = "connected"
    /\ wire[s] # <<>>
    /\ Head(wire[s]).ev \notin HandledEvents
    /\ out' = <<>>
    /\ last' = [ev |-> Head(wire[s]).ev, from |-> s, arg |-> Field(Head(wire[s]), "roomId")]
    /\ UNCHANGED <<sockets, sockRooms, rooms, participants, joins, nextMsgId, toggles>>
    /\ Reach(out')
    /\ wire' = [wire EXCEPT ![s] = Tail(@)]

\* room.participants = room.participants.filter(p => p.id !== socket.id)
WithoutParticipant(roster, sid) == SelectSeq(roster, LAMBDA p : p.id # sid)

\* the disconnect handler without its clean-up of empty rooms
RemoveKeepingRoom(rms, roomId, sid) ==
    [rms EXCEPT ![roomId].participants = WithoutParticipant(@, sid)]

\* the room map after the disconnect handler took sid out of room roomId:
\* if (room.participants.length === 0) rooms.delete(roomId)
RemoveParticipant(rms, roomId, sid) ==
    LET kept == WithoutParticipant(rms[roomId].participants, sid)
    IN IF Len(kept) = 0
       THEN [r \in DOMAIN rms \ {roomId} |-> rms[r]]
       ELSE [rms EXCEPT ![roomId].participants = kept]

\* participants.delete(socket.id)
DeleteKey(map, k) == [x \in DOMAIN map \ {k} |-> map[x]]

\* socket.on('disconnect'): Socket.IO has taken the socket out of every adapter
\* room before the handler runs
Disconnect(s) ==
    /\ sockets[s] = "connected"
    /\ LET closed == [sockets EXCEPT ![s] = "closed"]
           gone == [sockRooms EXCEPT ![s] = {}]
       IN /\ sockets' = closed
          /\ sockRooms' = gone
          /\ IF s \in DOMAIN participants
             THEN LET roomId == participants[s].roomId
                      userName == participants[s].userName
                  IN /\ IF roomId \in DOMAIN rooms
                        THEN /\ rooms' = RemoveParticipant(rooms, roomId, s)
                             /\ out' = << UserLeftEvent(ToOthers(closed, gone, s, roomId), s, userName),
                                          [ev |-> "participants-updated",
                                           to |-> ToAll(closed, gone, roomId), roomId |-> roomId,
                                           participants |->
                                               WithoutParticipant(rooms[roomId].participants, s)] >>
                        ELSE /\ out' = <<>>
                             /\ UNCHANGED rooms
                     /\ participants' = DeleteKey(participants, s)
             ELSE /\ out' = <<>>
                  /\ UNCHANGED <<rooms, participants>>
    /\ last' = [ev |-> "disconnect", from |-> s, arg |-> "-"]
    /\ UNCHANGED <<joins, nextMsgId, toggles>>
    /\ Deliver(out')

\* socket.on('leave-room', ({ roomId }) => ...): without a payload the
\* destructuring throws before the body runs, and the uncaughtException
\* handler logs it
LeaveRoom(s, payload) ==
    /\ sockets[s] = "connected"
    /\ IF /\ payload # NoPayload
          /\ s \in DOMAIN participants
          /\ participants[s].roomId = payload
       THEN /\ sockRooms' = [sockRooms EXCEPT ![s] = @ \ {payload}]
            /\ out' = << [ev |-> "left-room", to |-> ToSelf(s), roomId |-> payload] >>
       ELSE /\ out' = <<>>
            /\ UNCHANGED sockRooms
    /\ last' = [ev |-> "leave-room", from |-> s, arg |-> payload]
    /\ UNCHANGED <<sockets, rooms, participants, joins, nextMsgId, toggles>>
    /\ Deliver(out')

\* app.get('/api/room/:roomId'): the response body, or the 404
NotFound == [error |-> "Room not found"]

GetRoom(roomId) ==
    IF roomId \notin DOMAIN rooms
    THEN NotFound
    ELSE [roomId |-> roomId, participantCount |-> Len(rooms[roomId].participants)]

\* ------------------------------------------------------- the browser client
\* the indices of the RTCPeerConnection objects of a run
PcIds == 1..MaxPcs

\* one operation on a connection's operations chain
Op(name) == [op |-> name, track |-> "none"]
ReplaceOp(track) == [op |-> "replaceTrack", track |-> track]

\* new RTCPeerConnection(this.configuration), the local stream added when there
\* is one, and the callbacks set: offerer tells which onconnectionstatechange
NewPeerConnection(c, key, offerer) ==
    [owner |-> c, key |-> key, offerer |-> offerer,
     sig |-> "stable", local |-> FALSE, remote |-> FALSE,
     conn |-> "new", failures |-> 0, restarts |-> 0,
     video |-> localStream[c], applied |-> 0, gathered |-> 0, chain |-> <<>>]

\* peerConnection.close()
Closed(pc) == [pc EXCEPT !.sig = "closed", !.conn = "closed"]

\* the addIceCandidate calls waiting on the connection's chain
PendingIce(pc) == Cardinality({j \in 1..Len(pc.chain) : pc.chain[j].op = "addIce"})

\* the connections in client c's registry
Registered(c) == {peerConnections[c][k] : k \in DOMAIN peerConnections[c]}

\* the keys a listener of client c can compute from a payload
Keys(c) == (SocketIds \ {c}) \cup {Undefined}

\* this.socket.emit(kind, { ..., targetSocketId, roomId })
Signal(kind, targetSocketId) == [ev |-> kind, targetSocketId |-> targetSocketId]

\* the gateway events that can reach client c about another socket
GatewayEvents(c) ==
    UNION { {UserJoinedEvent({c}, NewParticipant(n, u)), UserLeftEvent({c}, n, u)}
            \cup {RelayedEvent(k, {c}, n) : k \in RelayKinds} :
            n \in SocketIds \ {c}, u \in UserNames }

\* the gateway events that make a client create or close a session
SessionEvents(c) ==
    {e \in GatewayEvents(c) : e.ev \in {"webrtc-offer", "user-joined", "user-left"}}

\* a gateway event reaches the client's socket; the listeners run on arrival,
\* so it finds the earlier events handled
Arrives(c, e) ==
    /\ manager[c] = "live"
    /\ inbox[c] = <<>>
    /\ inbox' = [inbox EXCEPT ![c] = Append(@, e)]
    /\ UNCHANGED <<gvars, view, manager, localStream, pcs, peerConnections, wire>>

\* the view's setupWebRTC(): new WebRTCManager(socket, currentRoom)
SetupWebRTC(c) ==
    /\ manager[c] = "none"
    /\ manager' = [manager EXCEPT ![c] = "live"]
    /\ UNCHANGED <<gvars, view, localStream, pcs, peerConnections, inbox, wire>>

\* setLocalStream(stream), called by the view once getUserMedia resolved
SetLocalStream(c) ==
    /\ manager[c] = "live"
    /\ localStream[c] = "none"
    /\ localStream' = [localStream EXCEPT ![c] = "camera"]
    /\ pcs' = [i \in 1..Len(pcs) |->
                  IF i \in Registered(c) THEN [pcs[i] EXCEPT !.video = "camera"] ELSE pcs[i]]
    /\ UNCHANGED <<gvars, view, manager, peerConnections, inbox, wire>>

\* createConnection past its has() check: the new connection is registered and
\* the handler waits for createOffer
CreateAlways(c, participantId) ==
    /\ Len(pcs) < MaxPcs
    /\ pcs' = Append(pcs, [NewPeerConnection(c, participantId, TRUE)
                              EXCEPT !.chain = <<Op("createOffer")>>])
    /\ peerConnections' =
          [peerConnections EXCEPT ![c] = (participantId :> (Len(pcs) + 1)) @@ @]

\* createConnection(participantId) up to its first await
CreateConnection(c, participantId) ==
    IF participantId \in DOMAIN peerConnections[c]
    THEN UNCHANGED <<pcs, peerConnections>>
    ELSE CreateAlways(c, participantId)

\* handleOffer(offer, senderSocketId) up to its first await
HandleOffer(c, senderSocketId) ==
    IF senderSocketId \in DOMAIN peerConnections[c]
    THEN LET i == peerConnections[c][senderSocketId]
         IN /\ Len(pcs[i].chain) < MaxChain
            /\ pcs' = [pcs EXCEPT ![i].chain = Append(@, Op("setRemoteOffer"))]
            /\ UNCHANGED peerConnections
    ELSE /\ Len(pcs) < MaxPcs
         /\ pcs' = Append(pcs, [NewPeerConnection(c, senderSocketId, FALSE)
                                   EXCEPT !.chain = <<Op("setRemoteOffer")>>])
         /\ peerConnections' =
               [peerConnections EXCEPT ![c] = (senderSocketId :> (Len(pcs) + 1)) @@ @]

\* handleAnswer that creates the missing session, as handleOffer does
AnswerCreates(c, senderSocketId) ==
    IF senderSocketId \in DOMAIN peerConnections[c]
    THEN LET i == peerConnections[c][senderSocketId]
         IN /\ Len(pcs[i].chain) < MaxChain
            /\ pcs' = [pcs EXCEPT ![i].chain = Append(@, Op("setRemoteAnswer"))]
            /\ UNCHANGED peerConnections
    ELSE /\ Len(pcs) < MaxPcs
         /\ pcs' = Append(pcs, [NewPeerConnection(c, senderSocketId, FALSE)
                                   EXCEPT !.chain = <<Op("setRemoteAnswer")>>])
         /\ peerConnections' =
               [peerConnections EXCEPT ![c] = (senderSocketId :> (Len(pcs) + 1)) @@ @]

\* handleAnswer(answer, senderSocketId) up to its await
HandleAnswer(c, senderSocketId) ==
    IF senderSocketId \in DOMAIN peerConnections[c]
    THEN LET i == peerConnections[c][senderSocketId]
         IN /\ Len(pcs[i].chain) < MaxChain
            /\ pcs' = [pcs EXCEPT ![i].chain = Append(@, Op("setRemoteAnswer"))]
            /\ UNCHANGED peerConnections
    ELSE UNCHANGED <<pcs, peerConnections>>

\* handleIceCandidate(candidate, senderSocketId) up to its await
HandleIceCandidate(c, senderSocketId) ==
    IF senderSocketId \in DOMAIN peerConnections[c]
    THEN LET i == peerConnections[c][senderSocketId]
         IN /\ Len(pcs[i].chain) < MaxChain
            /\ pcs[i].applied + PendingIce(pcs[i]) < MaxCandidates
            /\ pcs' = [pcs EXCEPT ![i].chain = Append(@, Op("addIce"))]
            /\ UNCHANGED peerConnections
    ELSE UNCHANGED <<pcs, peerConnections>>

\* closeConnection(participantId)
CloseConnection(c, participantId) ==
    IF participantId \in DOMAIN peerConnections[c]
    THEN /\ pcs' = [pcs EXCEPT ![peerConnections[c][participantId]] = Closed(@)]
         /\ peerConnections' = [peerConnections EXCEPT ![c] = DeleteKey(@, participantId)]
    ELSE UNCHANGED <<pcs, peerConnections>>

\* a listener of client c runs on the event at the head of its inbox
Hears(c, ev) ==
    /\ manager[c] = "live"
    /\ inbox[c] # <<>>
    /\ Head(inbox[c]).ev = ev
    /\ inbox' = [inbox EXCEPT ![c] = Tail(@)]
    /\ UNCHANGED <<gvars, view, manager, localStream, wire>>

\* this.socket.on('webrtc-offer', async ({ offer, senderSocketId }) => ...)
OnWebrtcOffer(c) ==
    /\ Hears(c, "webrtc-offer")
    /\ HandleOffer(c, Field(Head(inbox[c]), "senderSocketId"))

\* this.socket.on('webrtc-answer', async ({ answer, senderSocketId }) => ...)
OnWebrtcAnswer(c) ==
    /\ Hears(c, "webrtc-answer")
    /\ HandleAnswer(c, Field(Head(inbox[c]), "senderSocketId"))

\* this.socket.on('webrtc-ice-candidate', async ({ candidate, senderSocketId }) => ...)
OnWebrtcIceCandidate(c) ==
    /\ Hears(c, "webrtc-ice-candidate")
    /\ HandleIceCandidate(c, Field(Head(inbox[c]), "senderSocketId"))

\* this.socket.on('user-joined', (participant) => this.createConnection(participant.id))
OnUserJoined(c) ==
    /\ Hears(c, "user-joined")
    /\ CreateConnection(c, Field(Head(inbox[c]), "id"))

\* this.socket.on('user-left', ({ participantId }) => this.closeConnection(participantId))
OnUserLeft(c) ==
    /\ Hears(c, "user-left")
    /\ CloseConnection(c, Field(Head(inbox[c]), "participantId"))

\* the view's useEffect(participants): createConnection(participant.id) for a
\* roster entry other than the current user
ViewCreateConnection(c, participantId) ==
    /\ manager[c] = "live"
    /\ participantId # c
    /\ CreateConnection(c, participantId)
    /\ UNCHANGED <<gvars, view, manager, localStream, inbox, wire>>

\* no sender is found on any connection
NoSender(pc, newVideoTrack) == pc

\* const sender = peerConnection.getSenders().find(s => s.track && s.track.kind === 'video');
\* if (sender) await sender.replaceTrack(newVideoTrack)
ReplaceTrack(pc, newVideoTrack) ==
    IF pc.video # "none"
    THEN [pc EXCEPT !.chain = Append(@, ReplaceOp(newVideoTrack))]
    ELSE pc

\* replaceVideoTrack(newVideoTrack), called by the view's toggleScreenShare and
\* stopScreenShare when it has a local stream: sender.replaceTrack on every
\* registered connection that has a video sender, then the local stream
ReplaceVideoTrack(c, newVideoTrack) ==
    /\ manager[c] = "live"
    /\ localStream[c] \notin {"none", newVideoTrack}
    /\ \A i \in Registered(c) : Len(pcs[i].chain) < MaxChain
    /\ pcs' = [i \in 1..Len(pcs) |->
                  IF i \in Registered(c) THEN ReplaceTrack(pcs[i], newVideoTrack) ELSE pcs[i]]
    /\ localStream' = [localStream EXCEPT ![c] = newVideoTrack]
    /\ UNCHANGED <<gvars, view, manager, peerConnections, inbox, wire>>

\* the connection after the operation at the head of its chain was rejected, or
\* never settled: the handler that awaits it goes to its catch block
Rejected(pc) == [pc |-> [pc EXCEPT !.chain = Tail(@)], emit |-> <<>>]

\* the connection after the operation at the head of its chain resolved and the
\* handler that awaits it ran to its next await, with what the handler emitted
Resolved(pc) ==
    LET op == Head(pc.chain)
        rest == [pc EXCEPT !.chain = Tail(@)]
        revived == IF pc.conn = "failed" THEN "new" ELSE pc.conn
    IN CASE op.op = "createOffer" ->
              [pc |-> [rest EXCEPT !.chain = Append(@, Op("setLocalOffer"))], emit |-> <<>>]
         [] op.op = "setLocalOffer" ->
              [pc |-> [rest EXCEPT !.sig = "have-local-offer", !.local = TRUE],
               emit |-> <<Signal("webrtc-offer", pc.key)>>]
         [] op.op = "setRemoteOffer" ->
              [pc |-> [rest EXCEPT !.sig = "have-remote-offer", !.remote = TRUE,
                                   !.conn = revived,
                                   !.chain = Append(@, Op("createAnswer"))],
               emit |-> <<>>]
         [] op.op = "createAnswer" ->
              [pc |-> [rest EXCEPT !.chain = Append(@, Op("setLocalAnswer"))], emit |-> <<>>]
         [] op.op = "setLocalAnswer" ->
              [pc |-> [rest EXCEPT !.sig = "stable", !.local = TRUE],
               emit |-> <<Signal("webrtc-answer", pc.key)>>]
         [] op.op = "setRemoteAnswer" ->
              [pc |-> [rest EXCEPT !.sig = "stable", !.remote = TRUE, !.conn = revived],
               emit |-> <<>>]
         [] op.op = "addIce" ->
              [pc |-> [rest EXCEPT !.applied = @ + 1], emit |-> <<>>]
         [] op.op = "replaceTrack" ->
              [pc |-> [rest EXCEPT !.video = op.track], emit |-> <<>>]

\* the signaling states in which the browser accepts the operation
Accepts(pc, op) ==
    CASE op = "createOffer" -> {"stable", "have-local-offer", "have-remote-offer"}
      [] op = "setLocalOffer" -> {"stable", "have-local-offer"}
      [] op = "setRemoteOffer" -> {"stable", "have-remote-offer"}
      [] op = "createAnswer" -> {"have-remote-offer"}
      [] op = "setLocalAnswer" -> {"have-remote-offer"}
      [] op = "setRemoteAnswer" -> {"have-local-offer"}
      [] op = "addIce" -> IF pc.remote THEN {"stable", "have-local-offer", "have-remote-offer"} ELSE {}
      [] op = "replaceTrack" -> {"stable", "have-local-offer", "have-remote-offer"}

\* what the browser can do with the operation at the head of the chain: a
\* remote offer that meets a local offer is rolled back to or rejected,
\* depending on the browser
Outcomes(pc) ==
    LET op == Head(pc.chain).op
    IN IF pc.sig \in Accepts(pc, op) THEN {Resolved(pc)}
       ELSE IF op = "setRemoteOffer" /\ pc.sig = "have-local-offer"
            THEN {Resolved(pc), Rejected(pc)}
            ELSE {Rejected(pc)}

\* the promise a handler awaits settles and the handler runs to its next await;
\* socket.emit hands an event to the transport, which carries one at a time
Settle(i) ==
    /\ i \in DOMAIN pcs
    /\ pcs[i].chain # <<>>
    /\ \E o \in Outcomes(pcs[i]) :
          /\ o.emit # <<>> => wire[pcs[i].owner] = <<>>
          /\ pcs' = [pcs EXCEPT ![i] = o.pc]
          /\ wire' = [wire EXCEPT ![pcs[i].owner] = @ \o o.emit]
    /\ UNCHANGED <<gvars, view, manager, localStream, peerConnections, inbox>>

\* peerConnection.onicecandidate with a candidate
IceCandidateFound(i) ==
    /\ i \in DOMAIN pcs
    /\ pcs[i].sig # "closed"
    /\ pcs[i].local
    /\ pcs[i].gathered < MaxCandidates
    /\ wire[pcs[i].owner] = <<>>
    /\ pcs' = [pcs EXCEPT ![i].gathered = @ + 1]
    /\ wire' = [wire EXCEPT ![pcs[i].owner] = Append(@, Signal("webrtc-ice-candidate", pcs[i].key))]
    /\ UNCHANGED <<gvars, view, manager, localStream, peerConnections, inbox>>

\* peerConnection.onconnectionstatechange with connectionState 'connected'
ConnectionEstablished(i) ==
    /\ i \in DOMAIN pcs
    /\ pcs[i].conn = "new"
    /\ pcs[i].sig = "stable" /\ pcs[i].local /\ pcs[i].remote
    /\ pcs' = [pcs EXCEPT ![i].conn = "connected"]
    /\ UNCHANGED <<gvars, view, manager, localStream, peerConnections, inbox, wire>>

\* peerConnection.onconnectionstatechange with connectionState 'failed': the
\* callback set by createConnection calls restartIce(), the one set by
\* handleOffer logs
ConnectionFailed(i) ==
    /\ i \in DOMAIN pcs
    /\ pcs[i].conn \in {"new", "connected"}
    /\ pcs[i].local /\ pcs[i].remote
    /\ pcs[i].failures < MaxFailures
    /\ pcs' = [pcs EXCEPT ![i].conn = "failed",
                          ![i].failures = @ + 1,
                          ![i].restarts = IF pcs[i].offerer THEN @ + 1 ELSE @]
    /\ UNCHANGED <<gvars, view, manager, localStream, peerConnections, inbox, wire>>

\* cleanup() that forgets the connections without closing them
ForgetAll(c) == pcs

\* cleanup(): connection.close() for every registered connection
CloseAll(c) ==
    [i \in 1..Len(pcs) |-> IF i \in Registered(c) THEN Closed(pcs[i]) ELSE pcs[i]]

\* cleanup(), called by the view's leaveMeeting and on unmount
Cleanup(c) ==
    /\ manager[c] = "live"
    /\ manager' = [manager EXCEPT ![c] = "cleaned"]
    /\ pcs' = CloseAll(c)
    /\ peerConnections' = [peerConnections EXCEPT ![c] = <<>>]
    /\ localStream' = [localStream EXCEPT ![c] = "none"]
    /\ inbox' = [inbox EXCEPT ![c] = <<>>]
    /\ UNCHANGED <<gvars, view, wire>>

\* an emitted event leaves the client's socket
Transmit(c) ==
    /\ wire[c] # <<>>
    /\ wire' = [wire EXCEPT ![c] = Tail(@)]
    /\ UNCHANGED <<gvars, view, manager, localStream, pcs, peerConnections, inbox>>

\* the view's toggleAudio(): the track and isAudioEnabled are flipped and
\* 'toggle-audio' { isAudioEnabled, roomId: currentRoom } is emitted
ViewToggleAudio(c, currentRoom) ==
    /\ manager[c] = "live"
    /\ localStream[c] # "none"
    /\ wire[c] = <<>>
    /\ view' = [view EXCEPT ![c].isAudioEnabled = ~@]
    /\ wire' = [wire EXCEPT ![c] = Append(@, [ev |-> "toggle-audio",
                                               isAudioEnabled |-> ~view[c].isAudioEnabled,
                                               roomId |-> currentRoom])]
    /\ UNCHANGED <<gvars, manager, localStream, pcs, peerConnections, inbox>>

\* the view's toggleVideo(): the track and isVideoEnabled are flipped and
\* 'toggle-video' { isVideoEnabled, roomId: currentRoom } is emitted
ViewToggleVideo(c, currentRoom) ==
    /\ manager[c] = "live"
    /\ localStream[c] # "none"
    /\ wire[c] = <<>>
    /\ view' = [view EXCEPT ![c].isVideoEnabled = ~@]
    /\ wire' = [wire EXCEPT ![c] = Append(@, [ev |-> "toggle-video",
                                               isVideoEnabled |-> ~view[c].isVideoEnabled,
                                               roomId |-> currentRoom])]
    /\ UNCHANGED <<gvars, manager, localStream, pcs, peerConnections, inbox>>

\* the view's toggleScreenShare() once the capture it asked for is there: with
\* a manager and a local stream the video track is replaced (by the screen
\* track, or by the camera track of stopScreenShare) and isScreenSharing is
\* flipped; 'toggle-screen-share' { isScreenSharing, roomId: currentRoom } is
\* emitted in either case
ViewToggleScreenShare(c, currentRoom) ==
    /\ manager[c] = "live"
    /\ wire[c] = <<>>
    /\ IF localStream[c] # "none"
       THEN LET track == IF view[c].isScreenSharing THEN "camera" ELSE "screen"
            IN /\ \A i \in Registered(c) : Len(pcs[i].chain) < MaxChain
               /\ pcs' = [i \in 1..Len(pcs) |->
                             IF i \in Registered(c) THEN ReplaceTrack(pcs[i], track) ELSE pcs[i]]
               /\ localStream' = [localStream EXCEPT ![c] = track]
               /\ view' = [view EXCEPT ![c].isScreenSharing = ~@]
       ELSE UNCHANGED <<pcs, localStream, view>>
    /\ wire' = [wire EXCEPT ![c] = Append(@, [ev |-> "toggle-screen-share",
                                               isScreenSharing |-> ~view[c].isScreenSharing,
                                               roomId |-> currentRoom])]
    /\ UNCHANGED <<gvars, manager, peerConnections, inbox>>

\* the client whose manager the client specifications follow
LocalClient == SocketOrder[1]

ClientEvents ==
    \/ SetupWebRTC(LocalClient)
    \/ \E e \in GatewayEvents(LocalClient) : Arrives(LocalClient, e)
    \/ OnWebrtcOffer(LocalClient)
    \/ OnWebrtcAnswer(LocalClient)
    \/ OnWebrtcIceCandidate(LocalClient)
    \/ OnUserJoined(LocalClient)
    \/ OnUserLeft(LocalClient)
    \/ \E p \in SocketIds : ViewCreateConnection(LocalClient, p)
    \/ \E i \in PcIds : Settle(i)
    \/ Transmit(LocalClient)
    \/ Cleanup(LocalClient)

\* ---------------------------------------------------------- specifications
\* connection, join, leave and disconnect: the handlers that write the roster,
\* the socket-to-room map and the adapter rooms
Membership ==
    \/ \E s \in SocketIds : Connect(s)
    \/ \E s \in SocketIds, r \in RoomIds, u \in UserNames : JoinRoom(s, r, u)
    \/ \E s \in SocketIds : Disconnect(s)
    \/ \E s \in SocketIds, r \in RoomIds \cup {NoPayload} : LeaveRoom(s, r)

\* the relay and screen-share handlers: they emit and write no gateway state
Signaling ==
    \/ \E s \in SocketIds, k \in RelayKinds, t \in Names : Relay(s, k, t)
    \/ \E s \in SocketIds, r \in RoomIds : StartScreenShare(s, r)
    \/ \E s \in SocketIds, r \in RoomIds : StopScreenShare(s, r)

Chat ==
    \E s \in SocketIds, r \in RoomIds, m \in MessageTexts, u \in UserNames :
        SendMessage(s, r, m, u)

Media ==
    \/ \E s \in SocketIds, r \in RoomIds, v \in BOOLEAN : ToggleAudio(s, r, v)
    \/ \E s \in SocketIds, r \in RoomIds, v \in BOOLEAN : ToggleVideo(s, r, v)

Next == Membership \/ Signaling \/ Chat \/ Media

\* the whole gateway
Spec == Init /\ [][Next]_vars

\* the gateway restricted to the handlers one concern involves; each keeps the
\* membership handlers, so every roster, map and adapter-room state is reached
SpecSignaling == Init /\ [][Membership \/ Signaling]_vars
SpecChat == Init /\ [][Membership \/ Chat]_vars
SpecMedia == Init /\ [][Membership \/ Media]_vars

\* the membership handlers with join-room payloads that lack a room id or carry
\* an empty display name
SpecJoin ==
    Init /\ [][\/ Membership
               \/ \E s \in SocketIds, r \in RoomIds \cup {Undefined}, u \in UserNames \cup {EmptyName} :
                      MalformedJoin(s, r, u)]_vars

\* one client's manager with the gateway events arriving in any order
SpecClient == Init /\ [][ClientEvents]_vars

\* negotiation on the offering and the answering side, and the browser's
\* connection state callbacks
ClientFailure ==
    \/ SetupWebRTC(LocalClient)
    \/ \E e \in GatewayEvents(LocalClient) : Arrives(LocalClient, e)
    \/ OnWebrtcOffer(LocalClient)
    \/ OnWebrtcAnswer(LocalClient)
    \/ OnWebrtcIceCandidate(LocalClient)
    \/ OnUserJoined(LocalClient)
    \/ OnUserLeft(LocalClient)
    \/ \E i \in PcIds : Settle(i)
    \/ Transmit(LocalClient)
    \/ \E i \in PcIds : ConnectionEstablished(i)
    \/ \E i \in PcIds : ConnectionFailed(i)

SpecFailure == Init /\ [][ClientFailure]_vars

\* sessions created on either side before and after the local stream is set,
\* the track replacements of screen sharing, and sessions closing
ClientTracks ==
    \/ SetupWebRTC(LocalClient)
    \/ SetLocalStream(LocalClient)
    \/ \E e \in SessionEvents(LocalClient) : Arrives(LocalClient, e)
    \/ OnWebrtcOffer(LocalClient)
    \/ OnUserJoined(LocalClient)
    \/ OnUserLeft(LocalClient)
    \/ \E p \in SocketIds : ViewCreateConnection(LocalClient, p)
    \/ \E t \in VideoTracks : ReplaceVideoTrack(LocalClient, t)
    \/ \E i \in PcIds : Settle(i)
    \/ Transmit(LocalClient)

SpecTracks == Init /\ [][ClientTracks]_vars

\* the manager from set-up to cleanup(), with every listener, the view's
\* calls, the local stream and the candidates the browser gathers
ClientLife ==
    \/ ClientEvents
    \/ SetLocalStream(LocalClient)
    \/ \E i \in PcIds : IceCandidateFound(i)

SpecCleanup == Init /\ [][ClientLife]_vars

\* the gateway and the managers of all its clients: what a manager emits is
\* handled by the gateway's relay handlers, what the gateway emits arrives at
\* the managers that have their listeners registered
Call ==
    \/ \E s \in SocketIds : Connect(s)
    \/ \E s \in SocketIds, r \in RoomIds, u \in UserNames : JoinRoom(s, r, u)
    \/ \E s \in SocketIds : Disconnect(s)
    \/ \E s \in SocketIds : RelayFromWire(s)
    \/ \E c \in SocketIds : SetupWebRTC(c)
    \/ \E c \in SocketIds : OnUserJoined(c)
    \/ \E c \in SocketIds : OnUserLeft(c)
    \/ \E c \in SocketIds, p \in SocketIds : ViewCreateConnection(c, p)
    \/ \E i \in PcIds : Settle(i)

SpecCall == Init /\ [][Call]_vars

\* one client's view with its media controls, and the gateway handling what
\* the view emits
Controls ==
    \/ \E s \in SocketIds : Connect(s)
    \/ \E s \in SocketIds, r \in RoomIds, u \in UserNames : JoinRoom(s, r, u)
    \/ SetupWebRTC(LocalClient)
    \/ SetLocalStream(LocalClient)
    \/ \E r \in RoomIds : ViewToggleAudio(LocalClient, r)
    \/ \E r \in RoomIds : ViewToggleVideo(LocalClient, r)
    \/ \E r \in RoomIds : ViewToggleScreenShare(LocalClient, r)
    \/ \E s \in SocketIds : ToggleAudioFromWire(s)
    \/ \E s \in SocketIds : ToggleVideoFromWire(s)
    \/ \E s \in SocketIds : Unhandled(s)

SpecControls == Init /\ [][Controls]_vars

\* the handlers that read or write a room's record, with join-room payloads
\* whose roomId is any string a client can send, a socket id included
SpecRooms ==
    Init /\ [][\/ Membership \/ Chat \/ Media
               \/ \E s \in SocketIds, t \in SocketIds, u \in UserNames :
                      JoinSocketRoom(s, t, u)]_vars

\* ------------------------------------------------------------------ claims
Emitted(ev) == {e \in Range(out) : e.ev = ev}
Roster(r) == IF r \in DOMAIN rooms THEN rooms[r].participants ELSE <<>>

\* C1: a webrtc-offer, webrtc-answer or webrtc-ice-candidate naming target T
\* reaches at most one socket, the one whose id is T, and the sender gets no
\* error, whatever T is (a room id included).
C1_RelayOnlyToTarget ==
    last.ev \in RelayKinds =>
        \A e \in Range(out) : e.ev = last.ev /\ e.to \subseteq {last.arg}

\* C2: every room in the room map has a non-empty roster, so the
\* room-existence endpoint never answers with participantCount 0.
C2_NoEmptyRoom ==
    /\ \A r \in DOMAIN rooms : Len(rooms[r].participants) > 0
    /\ \A r \in Names : GetRoom(r) = NotFound \/ GetRoom(r).participantCount > 0

\* C2 witness: a disconnect has just removed the last participant of a room,
\* and the room is gone from the map.
C2_Witness ==
    /\ last.ev = "disconnect"
    /\ \E e \in Emitted("participants-updated") :
          e.participants = <<>> /\ GetRoom(e.roomId) = NotFound

\* C3: after a leave-room from P, as after a disconnect of P, P is in no
\* roster and not in the socket-to-room map, and a leave-room that names P's
\* room emitted user-left for P.
C3_LeaveRemovesLikeDisconnect ==
    last.ev = "leave-room" =>
        /\ last.from \notin DOMAIN participants
        /\ \A r \in DOMAIN rooms : last.from \notin RosterIds(rooms[r].participants)
        /\ out # <<>> => \E e \in Emitted("user-left") : e.participantId = last.from

\* P has joined a room and has since sent the leave-room that names it
HasLeft(p) == p \in DOMAIN participants /\ participants[p].roomId \notin sockRooms[p]

\* C4: once P has left its room, a later leave-room or disconnect of P
\* changes neither the room map nor the socket-to-room map and emits no
\* second user-left.
C4_SecondLeaveIsNoOp ==
    [][\A p \in SocketIds :
          (HasLeft(p) /\ last'.from = p /\ last'.ev \in {"leave-room", "disconnect"})
              => /\ rooms' = rooms
                 /\ participants' = participants
                 /\ \A i \in 1..Len(out') : out'[i].ev # "user-left"]_vars

\* C5: a participant id is in the roster of at most one room.
C5_OneRoomPerParticipant ==
    \A r1, r2 \in DOMAIN rooms :
        r1 # r2 => RosterIds(rooms[r1].participants) \cap RosterIds(rooms[r2].participants) = {}

\* C6: the roster of a room holds each participant id at most once.
C6_RosterIdsUnique ==
    \A r \in DOMAIN rooms :
        \A i, j \in 1..Len(rooms[r].participants) :
            i # j => rooms[r].participants[i].id # rooms[r].participants[j].id

\* C7: the list a participants-updated event carries is the stored roster of
\* its room after the event, and the event reaches every participant in it.
C7_RosterBroadcast ==
    \A e \in Emitted("participants-updated") :
        /\ e.participants = Roster(e.roomId)
        /\ RosterIds(Roster(e.roomId)) \subseteq e.to

\* C8: a join-room naming a room that every earlier member has left (no
\* socket is in its adapter room) gets an empty chat history in joined-room.
C8_FreshHistoryAfterEmpty ==
    [][(last'.ev = "join-room" /\ InRoom(last'.arg) = {})
          => \A i \in 1..Len(out') :
                out'[i].ev = "joined-room" => out'[i].messages = <<>>]_vars

\* the entries of other participants than a are the same in rms2 as in rms1
OthersUntouched(a, rms1, rms2) ==
    /\ DOMAIN rms2 = DOMAIN rms1
    /\ \A r \in DOMAIN rms1 :
          /\ Len(rms2[r].participants) = Len(rms1[r].participants)
          /\ \A i \in 1..Len(rms1[r].participants) :
                rms1[r].participants[i].id # a
                    => rms2[r].participants[i] = rms1[r].participants[i]

\* C9: a toggle-audio or toggle-video from A changes no media-state field of
\* any other participant, in any room, whatever room id the payload names.
C9_ToggleOnlyOwnRecord ==
    [][\A a \in SocketIds :
          (last'.from = a /\ last'.ev \in {"toggle-audio", "toggle-video"})
              => OthersUntouched(a, rooms, rooms')]_vars

\* C9 witness: A has set its audio flag in a room whose first roster entry is
\* another participant.
C9_Witness ==
    /\ last.ev = "toggle-audio"
    /\ \E e \in Emitted("participant-audio-toggled") : e.isAudioMuted
    /\ Roster(last.arg)[1].id # last.from
    /\ \E i \in 1..Len(Roster(last.arg)) :
          Roster(last.arg)[i].id = last.from /\ Roster(last.arg)[i].isAudioMuted

\* C10: a send-message from a participant of a room whose roster has n entries
\* appends the message to the history and is delivered n times, once to every
\* participant in the roster, the sender included.
C10_ChatFanOut ==
    \A e \in Emitted("new-message") :
        e.chatMessage.senderId \in RosterIds(Roster(e.roomId)) =>
            /\ Roster(e.roomId) # <<>>
            /\ rooms[e.roomId].messages[Len(rooms[e.roomId].messages)] = e.chatMessage
            /\ e.to = RosterIds(Roster(e.roomId))
            /\ Cardinality(e.to) = Len(Roster(e.roomId))

\* C11: a join-room is answered with joined-room to the joiner first, then
\* user-joined about the joiner goes to every other participant in the roster
\* of the room and to nobody else, never to the joiner.
C11_JoinedThenUserJoined ==
    last.ev = "join-room" =>
        /\ Len(out) >= 2
        /\ out[1].ev = "joined-room" /\ out[1].to = {last.from}
        /\ out[2].ev = "user-joined" /\ out[2].participantId = last.from
        /\ out[2].to = RosterIds(Roster(last.arg)) \ {last.from}
        /\ \A e \in Emitted("user-joined") : last.from \notin e.to

\* C12: a join-room with a missing room id or an empty display name is
\* answered with an error to the requester and changes no state: no room is
\* keyed by a missing id, no roster entry and no socket-to-room entry holds an
\* empty name or a missing room id.
C12_MalformedJoinRejected ==
    /\ Undefined \notin DOMAIN rooms
    /\ \A r \in DOMAIN rooms : \A i \in 1..Len(rooms[r].participants) :
          rooms[r].participants[i].userName # EmptyName
    /\ \A s \in DOMAIN participants :
          participants[s].roomId # Undefined /\ participants[s].userName # EmptyName
    /\ (last.ev = "join-room" /\ last.arg = Undefined) =>
          /\ Emitted("error") # {}
          /\ \A e \in Range(out) : e.ev = "error" /\ e.to = {last.from}

\* C14 (as stated): the roster in joined-room lists exactly the participants
\* that were in the room before the join, so the first joiner gets an empty
\* roster and the second joiner gets only the first.
C14_RosterBeforeJoin ==
    [][joins' # joins => out'[1].participants = Roster(last'.arg)]_vars

\* C14 (amended): the roster in joined-room lists the participants that were in
\* the room before the join followed by the joiner's own new entry, so the first
\* joiner gets a roster of itself alone and the second joiner gets the first
\* and then itself.
C14_RosterWithJoiner ==
    [][joins' # joins =>
          /\ out'[1].ev = "joined-room"
          /\ out'[1].participants = Append(Roster(last'.arg), out'[2].participant)
          /\ out'[2].participant.id = last'.from]_vars

\* C14 witness: a second socket has joined a room and its joined-room lists the
\* first joiner and then itself.
C14_Witness ==
    /\ last.ev = "join-room"
    /\ Len(out[1].participants) = 2
    /\ out[1].participants[1].id # last.from
    /\ out[1].participants[2].id = last.from

\* client c's listener for ev runs in this step, on the event e
Handles(c, ev, e) ==
    /\ manager[c] = "live"
    /\ inbox[c] # <<>>
    /\ e = Head(inbox[c])
    /\ e.ev = ev
    /\ inbox'[c] = Tail(inbox[c])
    /\ manager'[c] = "live"

\* the connections of client c that are not closed and were made for key k
LiveFor(c, k) == {i \in DOMAIN pcs : pcs[i].owner = c /\ pcs[i].key = k /\ pcs[i].sig # "closed"}

\* C15: a client never has two open PeerSessions for one remote key, and a
\* user-joined about a remote id that already has a session in the registry
\* creates no RTCPeerConnection (so no second offer either).
C15_OneSessionPerRemote ==
    [][/\ \A c \in SocketIds : \A k \in Keys(c) : Cardinality(LiveFor(c, k))' <= 1
       /\ \A c \in SocketIds : \A e \in GatewayEvents(c) :
             (Handles(c, "user-joined", e) /\ e.participantId \in DOMAIN peerConnections[c])
                 => Len(pcs') = Len(pcs)]_vars

\* C16: an ICE candidate a client receives is not lost: after its listener ran
\* the candidate waits on a connection of the client (to be added once the
\* remote description is there), and a waiting candidate of an open connection
\* is added when its turn comes.
C16_NoCandidateLost ==
    [][/\ \A c \in SocketIds : \A e \in GatewayEvents(c) :
             Handles(c, "webrtc-ice-candidate", e) =>
                 \E i \in DOMAIN pcs : pcs[i].owner = c /\ PendingIce(pcs'[i]) = PendingIce(pcs[i]) + 1
       /\ \A i \in DOMAIN pcs :
             (pcs[i].sig # "closed" /\ PendingIce(pcs'[i]) < PendingIce(pcs[i]))
                 => pcs'[i].applied = pcs[i].applied + 1]_vars

\* the handlers suspended at an await on connection pc: every operation on its
\* chain but the track replacements
Suspended(pc) == {j \in 1..Len(pc.chain) : pc.chain[j].op # "replaceTrack"}

\* C20: the handlers for one remote are serialized: a connection never has two
\* of createConnection, handleOffer, handleAnswer, handleIceCandidate suspended
\* at an await at the same time.
C20_HandlersSerialized ==
    \A i \in DOMAIN pcs : Cardinality(Suspended(pcs[i])) <= 1

\* C17: a session whose connection state became failed has had exactly one
\* ICE restart, on whichever side it was created, and a session that failed a
\* second time is closed and out of the registry.
C17_OneRestartThenClose ==
    \A i \in DOMAIN pcs :
        /\ pcs[i].restarts = (IF pcs[i].failures = 0 THEN 0 ELSE 1)
        /\ pcs[i].failures >= 2 =>
              pcs[i].sig = "closed" /\ i \notin Registered(pcs[i].owner)

\* the positions of the track replacements waiting on connection pc
Replacements(pc) == {j \in 1..Len(pc.chain) : pc.chain[j].op = "replaceTrack"}

\* the video track connection pc sends once the replacements waiting on its
\* chain are done
Sending(pc) ==
    IF Replacements(pc) = {}
    THEN pc.video
    ELSE pc.chain[CHOOSE j \in Replacements(pc) : \A k \in Replacements(pc) : k <= j].track

\* C18: replaceVideoTrack emits nothing, neither when called nor when a
\* replacement completes, and leaves the registry and every connection open;
\* every registered session sends, once its pending replacements are done, the
\* video track of the local stream: the screen track after the first call, the
\* camera track after the second.
C18_ReplaceInPlace ==
    [][\A c \in SocketIds :
          /\ (localStream[c] # "none" /\ localStream'[c] \notin {"none", localStream[c]}) =>
                /\ wire' = wire
                /\ peerConnections' = peerConnections
                /\ Len(pcs') = Len(pcs)
                /\ \A i \in DOMAIN pcs : pcs'[i].sig = pcs[i].sig
          /\ \A i \in DOMAIN pcs :
                (Cardinality(Replacements(pcs'[i])) < Cardinality(Replacements(pcs[i])))
                    => wire' = wire
          /\ \A k \in DOMAIN peerConnections'[c] :
                Sending(pcs'[peerConnections'[c][k]]) = localStream'[c]]_vars

\* C18 witness: a registered session that sends the screen track, put there by
\* a first replaceVideoTrack, has the camera track of a second one waiting.
C18_Witness ==
    \E c \in SocketIds : \E k \in DOMAIN peerConnections[c] :
        LET pc == pcs[peerConnections[c][k]]
        IN /\ pc.video = "screen"
           /\ Replacements(pc) # {}
           /\ Sending(pc) = "camera"
           /\ localStream[c] = "camera"

\* C19: once cleanup() has run, the registry is empty, the local stream and its
\* tracks are gone and every connection of the client is closed, and it stays
\* so: no step after it constructs a connection or emits an event, whatever
\* handler was suspended when it ran.
C19_CleanupIsFinal ==
    [][\A c \in SocketIds :
          manager'[c] = "cleaned" =>
              /\ peerConnections'[c] = <<>>
              /\ localStream'[c] = "none"
              /\ \A i \in DOMAIN pcs' : pcs'[i].owner = c => pcs'[i].sig = "closed"
              /\ manager[c] = "cleaned" =>
                    /\ Len(pcs') = Len(pcs)
                    /\ Len(wire'[c]) <= Len(wire[c])]_vars

\* C19 witness: cleanup() has run while a handler of the client was suspended
\* at an await, and the handler's connection is closed.
C19_Witness ==
    \E i \in DOMAIN pcs :
        /\ manager[pcs[i].owner] = "cleaned"
        /\ pcs[i].sig = "closed"
        /\ Suspended(pcs[i]) # {}
\* a and b are the two participants of one room, both connected and joined
TwoPartyCall(a, b) ==
    /\ a \in DOMAIN participants /\ b \in DOMAIN participants
    /\ participants[a].roomId = participants[b].roomId
    /\ RosterIds(Roster(participants[a].roomId)) = {a, b}
    /\ Len(Roster(participants[a].roomId)) = 2
    /\ sockets[a] = "connected" /\ sockets[b] = "connected"
    /\ participants[a].roomId \in sockRooms[a] \cap sockRooms[b]

\* C13: in a two-party call, the gateway delivers the offer or answer that one
\* party's manager emitted to the other party and to nobody else, and the
\* delivered event names the emitting party as senderSocketId, the field the
\* receiving manager handles it by
C13_CallSignalsReachPeer ==
    [][\A a \in SocketIds : \A b \in SocketIds \ {a} :
          (/\ TwoPartyCall(a, b)
           /\ wire[a] # <<>>
           /\ Head(wire[a]).ev \in {"webrtc-offer", "webrtc-answer"}
           /\ wire'[a] = Tail(wire[a]))
          => /\ Len(out') = 1
             /\ out'[1].ev = Head(wire[a]).ev
             /\ out'[1].to = {b}
             /\ Field(out'[1], "senderSocketId") = a]_vars

\* C26: a send-message naming a room id that is not in the room map sends one
\* error event to the requesting socket and to nobody else, and leaves the room
\* map as it was: no room is created, no history grows, no new-message goes out.
C26_UnknownRoomError ==
    [][\A s \in SocketIds : \A r \in RoomIds :
          (/\ last' = [ev |-> "send-message", from |-> s, arg |-> r]
           /\ r \notin DOMAIN rooms)
          => /\ rooms' = rooms
             /\ nextMsgId' = nextMsgId
             /\ Len(out') = 1
             /\ out'[1].ev = "error" /\ out'[1].to = {s}]_vars

\* C26 witness: a send-message for a room that does not exist has just been
\* answered with an error while another socket is connected and in a room.
C26_Witness ==
    /\ last.ev = "send-message"
    /\ last.arg \notin DOMAIN rooms
    /\ Emitted("error") # {}
    /\ \E t \in Connected \ {last.from} : t \in DOMAIN participants

\* C27: every id in a room's roster belongs to a connected socket whose entry
\* in the socket-to-room map names that room, and every entry of the
\* socket-to-room map has a roster entry in the room it names.
C27_RosterMatchesSockets ==
    /\ \A r \in DOMAIN rooms : \A p \in RosterIds(rooms[r].participants) :
          /\ sockets[p] = "connected"
          /\ p \in DOMAIN participants
          /\ participants[p].roomId = r
    /\ \A s \in DOMAIN participants :
          s \in RosterIds(Roster(participants[s].roomId))

\* C28: a send-message naming room R from a socket that is not in R's roster
\* adds nothing to R's chat history and delivers no new-message.
C28_ChatOnlyFromMembers ==
    [][\A s \in SocketIds : \A r \in RoomIds :
          (/\ last' = [ev |-> "send-message", from |-> s, arg |-> r]
           /\ r \in DOMAIN rooms
           /\ s \notin RosterIds(rooms[r].participants))
          => /\ r \in DOMAIN rooms'
             /\ rooms'[r].messages = rooms[r].messages
             /\ \A e \in Range(out') : e.ev # "new-message"]_vars

\* C29: an offer, answer or ICE candidate from socket S is delivered to a
\* socket T only when S and T are both in the roster of one room.
C29_RelayWithinRoom ==
    [][last'.ev \in RelayKinds =>
          \A e \in Range(out') : \A t \in e.to :
              \E r \in DOMAIN rooms :
                  {last'.from, t} \subseteq RosterIds(rooms[r].participants)]_vars

\* socket t is a member of room r and of no other room: in r's roster and in
\* no other roster, with r as its only adapter room
OnlyIn(t, r) ==
    /\ sockets[t] = "connected"
    /\ sockRooms[t] = {r}
    /\ {x \in DOMAIN rooms : t \in RosterIds(rooms[x].participants)} = {r}

\* C21: a join-room, send-message, toggle-audio or toggle-video naming room R1,
\* or the disconnect of a socket the socket-to-room map puts in R1, leaves the
\* record of every other room R2 (roster, media flags, chat history) as it was
\* and delivers nothing to another socket that is only in R2.
C21_RoomsIndependent ==
    [][last'.ev \in {"join-room", "send-message", "toggle-audio", "toggle-video", "disconnect"} =>
          LET s == last'.from
              r1 == IF last'.ev # "disconnect" THEN last'.arg
                    ELSE IF s \in DOMAIN participants THEN participants[s].roomId
                    ELSE Undefined
          IN \A r2 \in DOMAIN rooms \ {r1} :
                /\ r2 \in DOMAIN rooms'
                /\ rooms'[r2] = rooms[r2]
                /\ \A t \in SocketIds \ {s} :
                      OnlyIn(t, r2) => \A e \in Range(out') : t \notin e.to]_vars

\* C22: when the manager of an existing member handles the gateway's
\* user-joined event for newcomer N, it has a session keyed by N's roster id
\* afterwards, and the target the gateway resolves for an offer the manager
\* emitted is the key of the session the offer belongs to.
C22_KeyTargetAndRosterIdAgree ==
    [][/\ \A c \in SocketIds :
             (/\ manager[c] = "live"
              /\ inbox[c] # <<>>
              /\ Head(inbox[c]).ev = "user-joined"
              /\ inbox'[c] = Tail(inbox[c]))
             => /\ Head(inbox[c]).participant.id \in DOMAIN peerConnections'[c]
                /\ pcs'[peerConnections'[c][Head(inbox[c]).participant.id]].sig # "closed"
       /\ \A s \in SocketIds :
             (/\ wire[s] # <<>>
              /\ Head(wire[s]).ev = "webrtc-offer"
              /\ wire'[s] = Tail(wire[s])
              /\ last'.ev = "webrtc-offer" /\ last'.from = s)
             => last'.arg = Head(wire[s]).targetSocketId]_vars

\* client a has sent the initial offer of a session it keeps for b
Offered(a, b) ==
    \E i \in DOMAIN pcs :
        /\ pcs[i].owner = a /\ pcs[i].key = b
        /\ pcs[i].offerer /\ pcs[i].local

\* C30: of two clients in one room at most one has issued the initial offer
\* for the pair, so neither can meet the other's offer while its own session
\* for the other is in have-local-offer.
C30_OneOffererPerPair ==
    \A a \in SocketIds : \A b \in SocketIds \ {a} :
        TwoPartyCall(a, b) => ~(Offered(a, b) /\ Offered(b, a))

\* C25: handleAnswer(answer, R) changes a session only when the registry has a
\* session under R and that session is in have-local-offer when
\* setRemoteDescription(answer) runs; with no session under R the answer is
\* dropped: no connection is constructed, the registry is unchanged and
\* nothing is emitted.
C25_AnswerNeedsLocalOffer ==
    [][/\ \A i \in DOMAIN pcs :
             (/\ pcs[i].chain # <<>>
              /\ Head(pcs[i].chain).op = "setRemoteAnswer"
              /\ pcs'[i].chain = Tail(pcs[i].chain)
              /\ \/ pcs'[i].sig # pcs[i].sig
                 \/ pcs'[i].remote # pcs[i].remote
                 \/ pcs'[i].conn # pcs[i].conn)
             => pcs[i].sig = "have-local-offer"
       /\ \A c \in SocketIds :
             (/\ manager[c] = "live" /\ manager'[c] = "live"
              /\ inbox[c] # <<>>
              /\ Head(inbox[c]).ev = "webrtc-answer"
              /\ inbox'[c] = Tail(inbox[c])
              /\ Field(Head(inbox[c]), "senderSocketId") \notin DOMAIN peerConnections[c])
             => /\ pcs' = pcs
                /\ peerConnections' = peerConnections
                /\ wire' = wire]_vars

\* C25 witness: an offering session has had an answer attached (it sent its
\* offer, holds a remote description and is stable again), and the client has
\* a second session, under another key, that no answer was attached to.
C25_Witness ==
    \E i \in DOMAIN pcs : \E j \in DOMAIN pcs \ {i} :
        /\ pcs[i].offerer /\ pcs[i].local /\ pcs[i].remote
        /\ pcs[i].sig = "stable"
        /\ pcs[j].owner = pcs[i].owner /\ pcs[j].key # pcs[i].key
        /\ pcs[j].sig = "have-local-offer" /\ ~pcs[j].remote

\* A's record in room r
RecordOf(rms, r, a) == rms[r].participants[FindParticipant(rms[r].participants, a)]

\* field f of record rec is there and holds a boolean
BooleanField(rec, f) == f \in DOMAIN rec /\ rec[f] \in BOOLEAN

\* C23: when the gateway handles the toggle-audio (toggle-video) that the view
\* of participant A emitted for A's room, A's record holds a boolean
\* isAudioMuted (isVideoOff) that matches the state the view switched to, and
\* the event sent to the other members carries that value; after every step
\* the two flags of every participant are booleans.
C23_FlagsFollowTheView ==
    [][/\ \A a \in SocketIds :
             (/\ wire[a] # <<>>
              /\ wire'[a] = Tail(wire[a])
              /\ Head(wire[a]).ev \in {"toggle-audio", "toggle-video"}
              /\ last'.ev = Head(wire[a]).ev /\ last'.from = a
              /\ Head(wire[a]).roomId \in DOMAIN rooms
              /\ a \in RosterIds(rooms[Head(wire[a]).roomId].participants))
             => LET m == Head(wire[a])
                    rec == RecordOf(rooms', m.roomId, a)
                IN IF m.ev = "toggle-audio"
                   THEN /\ BooleanField(rec, "isAudioMuted")
                        /\ rec.isAudioMuted = ~m.isAudioEnabled
                        /\ \A e \in Range(out') :
                              /\ e.ev = "participant-audio-toggled"
                              /\ BooleanField(e, "isAudioMuted")
                              /\ e.isAudioMuted = rec.isAudioMuted
                   ELSE /\ BooleanField(rec, "isVideoOff")
                        /\ rec.isVideoOff = ~m.isVideoEnabled
                        /\ \A e \in Range(out') :
                              /\ e.ev = "participant-video-toggled"
                              /\ BooleanField(e, "isVideoOff")
                              /\ e.isVideoOff = rec.isVideoOff
       /\ \A r \in DOMAIN rooms' : \A p \in Range(rooms'[r].participants) :
             BooleanField(p, "isAudioMuted") /\ BooleanField(p, "isVideoOff")]_vars

\* C24: when the gateway handles the screen-share event that the view of
\* participant A emitted for A's room, A's record holds isScreenSharing with
\* the value the view announced, and every other member of the room is sent a
\* screen-share event about A.
C24_ScreenShareRecorded ==
    [][\A a \in SocketIds :
          (/\ wire[a] # <<>>
           /\ wire'[a] = Tail(wire[a])
           /\ Head(wire[a]).ev = "toggle-screen-share"
           /\ last'.from = a
           /\ Head(wire[a]).roomId \in DOMAIN rooms
           /\ a \in RosterIds(rooms[Head(wire[a]).roomId].participants))
          => LET m == Head(wire[a])
                 rec == RecordOf(rooms', m.roomId, a)
             IN /\ "isScreenSharing" \in DOMAIN rec
                /\ rec.isScreenSharing = m.isScreenSharing
                /\ \A t \in ToOthers(sockets, sockRooms, a, m.roomId) :
                      \E e \in Range(out') :
                          /\ e.ev \in {"user-started-screen-share", "user-stopped-screen-share"}
                          /\ t \in e.to
                          /\ e.participantId = a]_vars

====
